---------------------------- MODULE Spec2Model ----------------------------
(***************************************************************************)
(* Duplicate detection and resolution of detect-duplicates-main.js         *)
(* (src/unnamed/part_000, lines 1-780).                                    *)
(*                                                                         *)
(* Strings are sequences of one-character strings, so that trimming,       *)
(* case folding, splitting, regular-expression matching and edit distance  *)
(* are computed character by character as the JavaScript does.  A missing  *)
(* cell and an empty cell are both the empty sequence (both are falsy).    *)
(* Array indices are 0-based as in the source; data[k + 1] is the record   *)
(* at JavaScript index k.  Timestamps are in days, in a zone without       *)
(* daylight saving (one day = 86400000 ms).                                *)
(***************************************************************************)
EXTENDS Integers, Sequences, FiniteSets, TLC

VARIABLES
    data,             \* originalData, the loaded collection (never reassigned)
    strategy,         \* CONFIG.strategy
    pc,               \* position inside main(): "find", "process", "done"
    i,                \* outer index of findDuplicatesInDataset
    processed,        \* the Set `processed` of findDuplicatesInDataset
    duplicateGroups,  \* array of {groupId, records: [{record, index}]}
    processedData,    \* result.processedData of processDuplicates
    actions,          \* result.actions of processDuplicates
    call,             \* a function called on its own: [fn, args]
    returned          \* <<its return value>>, <<>> before it returns

vars == <<data, strategy, pc, i, processed, duplicateGroups, processedData, actions,
          call, returned>>

-----------------------------------------------------------------------------
(* Bounds of the model *)

\* The longest collection loaded (two groups need four records)
MaxRecords == 4

\* The longest collection loaded when the records differ in the merged fields
MaxGroup == 3

-----------------------------------------------------------------------------
(* Characters and strings *)

E == <<>>

UpperLetters == <<"A","B","C","D","E","F","G","H","I","J","K","L","M",
                  "N","O","P","Q","R","S","T","U","V","W","X","Y","Z">>
LowerLetters == <<"a","b","c","d","e","f","g","h","i","j","k","l","m",
                  "n","o","p","q","r","s","t","u","v","w","x","y","z">>
Digits == <<"0","1","2","3","4","5","6","7","8","9">>

Range(s) == {s[k] : k \in 1..Len(s)}

\* The invisible characters, each one character of a string
NBSP == "U+00A0"
ZeroWidthSpace == "U+200B"
ZeroWidthNonJoiner == "U+200C"
ZeroWidthJoiner == "U+200D"
WordJoiner == "U+2060"
BOM == "U+FEFF"

\* \s of the regular expressions and the characters String.prototype.trim strips
WhiteSpace == {" ", "\t", "\n", NBSP, BOM}

\* \w of the regular expressions
WordChars == Range(UpperLetters) \cup Range(LowerLetters) \cup Range(Digits) \cup {"_"}

IsSpace(c) == c \in WhiteSpace
IsDigit(c) == c \in Range(Digits)

LowerChar(c) ==
    IF c \in Range(UpperLetters)
    THEN LowerLetters[CHOOSE k \in 1..26 : UpperLetters[k] = c]
    ELSE c

ToLowerCase(s) == [k \in 1..Len(s) |-> LowerChar(s[k])]

RECURSIVE TrimStart(_)
TrimStart(s) ==
    IF s = <<>> THEN s
    ELSE IF IsSpace(Head(s)) THEN TrimStart(Tail(s)) ELSE s

RECURSIVE TrimEnd(_)
TrimEnd(s) ==
    IF s = <<>> THEN s
    ELSE IF IsSpace(s[Len(s)]) THEN TrimEnd(SubSeq(s, 1, Len(s) - 1)) ELSE s

Trim(s) == TrimEnd(TrimStart(s))

Min2(a, b) == IF a <= b THEN a ELSE b
Max2(a, b) == IF a >= b THEN a ELSE b

-----------------------------------------------------------------------------
(* calculateSimilarity: the Levenshtein matrix, row by row *)

\* Row 0 of the matrix: matrix[0][j] = j, as the sequence <<0, 1, ..., n>>
FirstRow(n) == [j \in 1..(n + 1) |-> j - 1]

\* The cell with a substitution that costs as much as an insertion and a deletion
CellCostlySubstitution(prev, ch, str2, acc) ==
    Min2(Min2(prev[Len(acc) + 1] + 1, acc[Len(acc)] + 1),
         prev[Len(acc)] + (IF ch = str2[Len(acc)] THEN 0 ELSE 2))

\* matrix[r][j] from matrix[r-1] (prev) and matrix[r][0..j-1] (acc), j = Len(acc)
Cell(prev, ch, str2, acc) ==
    Min2(Min2(prev[Len(acc) + 1] + 1, acc[Len(acc)] + 1),
         prev[Len(acc)] + (IF ch = str2[Len(acc)] THEN 0 ELSE 1))

\* matrix[r][0..n] from matrix[r-1] (prev); acc holds matrix[r][0..Len(acc)-1],
\* starting from matrix[r][0] = r.  Each new row is bound as the one element
\* of a set, so that it is computed once, before the next cell is.
RECURSIVE FillRow(_, _, _, _, _)
FillRow(prev, ch, str2, r, acc) ==
    IF Len(acc) = Len(str2) + 1 THEN acc
    ELSE CHOOSE row \in {FillRow(prev, ch, str2, r, next) :
                            next \in {Append(acc, Cell(prev, ch, str2, acc))}} : TRUE

RECURSIVE LastRow(_, _, _, _)
LastRow(str1, str2, r, prev) ==
    IF r > Len(str1) THEN prev
    ELSE CHOOSE last \in {LastRow(str1, str2, r + 1, row) :
                             row \in {FillRow(prev, str1[r], str2, r, <<r>>)}} : TRUE

EditDistance(str1, str2) ==
    LastRow(str1, str2, 1, FirstRow(Len(str2)))[Len(str2) + 1]

\* A similarity is the exact fraction num/den
Frac(n, d) == [num |-> n, den |-> d]

\* sim >= pct/100
AtLeast(sim, pct) == sim.num * 100 >= pct * sim.den

\* The similarity with the length of the first string as the denominator
SimilarityOfFoldedByFirst(s1, s2) ==
    IF s1 = s2 THEN Frac(1, 1)
    ELSE IF Len(s1) = 0 THEN (IF Len(s2) = 0 THEN Frac(1, 1) ELSE Frac(0, 1))
    ELSE IF Len(s2) = 0 THEN Frac(0, 1)
    ELSE Frac(Len(s1) - EditDistance(s1, s2), Len(s1))

\* calculateSimilarity once str1 and str2 are lower-cased and trimmed
SimilarityOfFolded(s1, s2) ==
    IF s1 = s2 THEN Frac(1, 1)
    ELSE IF Len(s1) = 0 THEN (IF Len(s2) = 0 THEN Frac(1, 1) ELSE Frac(0, 1))
    ELSE IF Len(s2) = 0 THEN Frac(0, 1)
    ELSE Frac(Max2(Len(s1), Len(s2)) - EditDistance(s1, s2), Max2(Len(s1), Len(s2)))

\* The similarity that is 1 for two empty strings
calculateSimilarityOfEmptyIsOne(str1, str2) ==
    IF str1 = <<>> /\ str2 = <<>> THEN Frac(1, 1)
    ELSE IF str1 = <<>> \/ str2 = <<>> THEN Frac(0, 1)
    ELSE SimilarityOfFolded(Trim(ToLowerCase(str1)), Trim(ToLowerCase(str2)))

calculateSimilarity(str1, str2) ==
    IF str1 = <<>> \/ str2 = <<>> THEN Frac(0, 1)
    ELSE SimilarityOfFolded(Trim(ToLowerCase(str1)), Trim(ToLowerCase(str2)))

-----------------------------------------------------------------------------
(* normalizeCenterName, createLocationKey, normalizeEmail *)

SchoolTypes ==
    { <<"i","e","s">>, <<"c","e","i","p">>, <<"c","e","p">>, <<"c","e","e">>,
      <<"i","e","s","o">>, <<"c","i","f","p">>, <<"c","p","i","f","p">>,
      <<"c","e","a">> }

InstitutionWords ==
    { <<"i","n","s","t","i","t","u","t","o">>, <<"c","o","l","e","g","i","o">>,
      <<"c","e","n","t","r","o">>, <<"e","s","c","u","e","l","a">> }

\* s.replace(/\b(w1|w2|...)\b/g, ''): every maximal run of \w characters that
\* is one of the words is removed (both ends of a match are word boundaries
\* and the words hold only \w characters).  run is the \w run being read.
RECURSIVE RemoveWords(_, _, _, _)
RemoveWords(s, words, run, out) ==
    LET kept == IF run \in words THEN out ELSE out \o run
    IN  IF s = <<>> THEN kept
        ELSE RemoveWords(Tail(s), words,
                 IF Head(s) \in WordChars THEN Append(run, Head(s)) ELSE <<>>,
                 IF Head(s) \in WordChars THEN out ELSE Append(kept, Head(s)))

\* s.replace(/[^\w\s]/g, ' ')
PunctuationToSpace(s) ==
    [k \in 1..Len(s) |-> IF s[k] \in WordChars \/ IsSpace(s[k]) THEN s[k] ELSE " "]

\* s.replace(/\s+/g, ' ')
RECURSIVE CollapseSpaces(_, _)
CollapseSpaces(s, out) ==
    IF s = <<>> THEN out
    ELSE CollapseSpaces(IF IsSpace(Head(s)) THEN TrimStart(s) ELSE Tail(s),
                        Append(out, IF IsSpace(Head(s)) THEN " " ELSE Head(s)))

\* The normalisation without the removal of the school type abbreviations
normalizeCenterNameKeepingTypes(name) ==
    IF name = <<>> THEN <<>>
    ELSE Trim(CollapseSpaces(PunctuationToSpace(
             RemoveWords(ToLowerCase(name), InstitutionWords, <<>>, <<>>)), <<>>))

normalizeCenterName(name) ==
    IF name = <<>> THEN <<>>
    ELSE Trim(CollapseSpaces(PunctuationToSpace(
             RemoveWords(RemoveWords(ToLowerCase(name), SchoolTypes, <<>>, <<>>),
                         InstitutionWords, <<>>, <<>>)), <<>>))

LocationSeparator == <<" ", "|", " ">>

RECURSIVE Join(_, _)
Join(parts, sep) ==
    IF parts = <<>> THEN <<>>
    ELSE IF Len(parts) = 1 THEN parts[1]
    ELSE parts[1] \o sep \o Join(Tail(parts), sep)

createLocationKey(record) ==
    LET all   == <<record.locality, record.province, record.region>>
        parts == SelectSeq(all, LAMBDA part : Trim(part) # <<>>)
    IN  ToLowerCase(Join(parts, LocationSeparator))

normalizeEmail(email) ==
    IF email = <<>> THEN <<>> ELSE Trim(ToLowerCase(email))

-----------------------------------------------------------------------------
(* CONFIG.thresholds, in hundredths *)

ThresholdCenterName == 85
ThresholdLocation == 80
ThresholdEmail == 95
ThresholdRepresentative == 90
ModerateCenterName == 70
ModerateLocation == 60

\* 1. Exact email match (if both have emails)
EmailRule(record1, record2) ==
    /\ record1.email # <<>> /\ record2.email # <<>>
    /\ Trim(record1.email) # <<>> /\ Trim(record2.email) # <<>>
    /\ AtLeast(calculateSimilarity(normalizeEmail(record1.email),
                                   normalizeEmail(record2.email)),
               ThresholdEmail)

\* The representative rule asking for the location threshold of the name rule
RepresentativeRuleStrictLocation(record1, record2, locationSimilarity) ==
    /\ record1.representative # <<>> /\ record2.representative # <<>>
    /\ AtLeast(calculateSimilarity(Trim(ToLowerCase(record1.representative)),
                                   Trim(ToLowerCase(record2.representative))),
               ThresholdRepresentative)
    /\ AtLeast(locationSimilarity, ThresholdLocation)

\* 3. Representative name + location similarity
RepresentativeRule(record1, record2, locationSimilarity) ==
    /\ record1.representative # <<>> /\ record2.representative # <<>>
    /\ AtLeast(calculateSimilarity(Trim(ToLowerCase(record1.representative)),
                                   Trim(ToLowerCase(record2.representative))),
               ThresholdRepresentative)
    /\ AtLeast(locationSimilarity, ModerateLocation)

\* The decision with the name rules first: a high name similarity returns
\* true, a low one returns false before the email is read
DuplicateDecisionNameFirst(record1, record2, centerSimilarity, locationSimilarity) ==
    \/ AtLeast(centerSimilarity, ThresholdCenterName)
    \/ /\ AtLeast(centerSimilarity, ModerateCenterName)
       /\ \/ EmailRule(record1, record2)
          \/ AtLeast(locationSimilarity, ThresholdLocation)
          \/ RepresentativeRule(record1, record2, locationSimilarity)

\* The returns of areRecordsDuplicate, in order, given the two similarities
\* it computes once
DuplicateDecision(record1, record2, centerSimilarity, locationSimilarity) ==
    \/ EmailRule(record1, record2)
    \/ AtLeast(centerSimilarity, ThresholdCenterName)
    \/ /\ AtLeast(centerSimilarity, ModerateCenterName)
       /\ AtLeast(locationSimilarity, ThresholdLocation)
    \/ RepresentativeRule(record1, record2, locationSimilarity)

areRecordsDuplicate(record1, record2) ==
    DuplicateDecision(record1, record2,
        calculateSimilarity(normalizeCenterName(record1.center),
                            normalizeCenterName(record2.center)),
        calculateSimilarity(createLocationKey(record1), createLocationKey(record2)))

-----------------------------------------------------------------------------
(* calculateCompletenessScore *)

StringFields ==
    {"representative", "center", "email", "department", "locality",
     "province", "region", "commitments", "additional", "date"}

Weight(field) ==
    CASE field = "center" -> 2
      [] field = "email" -> 3
      [] field = "commitments" -> 2
      [] OTHER -> 1

\* record[field] && typeof record[field] === 'string' && record[field].trim()
IsFilled(value) == value # <<>> /\ Trim(value) # <<>>

RECURSIVE SumWeights(_)
SumWeights(fields) ==
    IF fields = {} THEN 0
    ELSE LET f == CHOOSE x \in fields : TRUE
         IN  Weight(f) + SumWeights(fields \ {f})

calculateCompletenessScore(record) ==
    SumWeights({f \in StringFields : IsFilled(record[f])})

-----------------------------------------------------------------------------
(* parseDate *)

\* ToNumber of a string of decimal digits
RECURSIVE ToNumber(_)
ToNumber(ds) ==
    IF ds = <<>> THEN 0
    ELSE 10 * ToNumber(SubSeq(ds, 1, Len(ds) - 1))
         + ((CHOOSE k \in 1..10 : Digits[k] = ds[Len(ds)]) - 1)

\* The three regular expressions of `formats`: three groups of digits with
\* the lengths allowed for each, and the separator between them
DateFormats ==
    << [sep |-> "/", lens |-> <<{1, 2}, {1, 2}, {4}>>],
       [sep |-> "-", lens |-> <<{4}, {1, 2}, {1, 2}>>],
       [sep |-> "-", lens |-> <<{1, 2}, {1, 2}, {4}>>] >>

AllDigits(s, from, len) ==
    /\ from + len - 1 <= Len(s)
    /\ \A k \in from..(from + len - 1) : IsDigit(s[k])

\* The group lengths <<l1, l2, l3>> with which the format matches at position p
MatchesAt(s, format, p) ==
    { t \in format.lens[1] \X format.lens[2] \X format.lens[3] :
        /\ AllDigits(s, p, t[1])
        /\ p + t[1] <= Len(s) /\ s[p + t[1]] = format.sep
        /\ AllDigits(s, p + t[1] + 1, t[2])
        /\ p + t[1] + 1 + t[2] <= Len(s) /\ s[p + t[1] + 1 + t[2]] = format.sep
        /\ AllDigits(s, p + t[1] + t[2] + 2, t[3]) }

\* Greedy quantifiers: the longest first group, then the longest second, ...
Greediest(ts) ==
    CHOOSE t \in ts : \A u \in ts :
        \/ t[1] > u[1]
        \/ t[1] = u[1] /\ t[2] > u[2]
        \/ t[1] = u[1] /\ t[2] = u[2] /\ t[3] >= u[3]

\* The positions where the format matches, and the leftmost of them
MatchStarts(s, format) == {p \in 1..Len(s) : MatchesAt(s, format, p) # {}}

Leftmost(starts) == CHOOSE q \in starts : \A r \in starts : q <= r

\* The three groups of the match at p with the group lengths t
Captures(s, p, t) ==
    << SubSeq(s, p, p + t[1] - 1),
       SubSeq(s, p + t[1] + 1, p + t[1] + t[2]),
       SubSeq(s, p + t[1] + t[2] + 2, p + t[1] + t[2] + t[3] + 1) >>

CapturesAt(s, format, p) == Captures(s, p, Greediest(MatchesAt(s, format, p)))

\* dateString.match(format): <<>> for null, else <<match[1], match[2], match[3]>>
RegexMatch(s, format) ==
    IF MatchStarts(s, format) = {} THEN <<>>
    ELSE CapturesAt(s, format, Leftmost(MatchStarts(s, format)))

\* Days from 1970-01-01 to the civil date year-month-day (month 1..12)
DaysFromCivil(year, month, day) ==
    LET y   == IF month <= 2 THEN year - 1 ELSE year
        era == y \div 400
        yoe == y - era * 400
        mp  == (month + 9) % 12
        doy == (153 * mp + 2) \div 5 + day - 1
        doe == yoe * 365 + yoe \div 4 - yoe \div 100 + doy
    IN  era * 146097 + doe - 719468

\* A Date object: its time value in days, or an Invalid Date (NaN)
ValidDate(days) == [valid |-> TRUE, t |-> days]
InvalidDate == [valid |-> FALSE, t |-> 0]

\* new Date(year, monthIndex, day): a year 0..99 means 1900 + year, and a
\* month index or a day out of range carries into the next unit
MakeDate(year, monthIndex, day) ==
    LET yr == IF year >= 0 /\ year <= 99 THEN 1900 + year ELSE year
    IN  ValidDate(DaysFromCivil(yr + (monthIndex \div 12), (monthIndex % 12) + 1, 1)
                  + day - 1)

\* new Date(dateString) for a string none of the formats matches.  The strings
\* of the model that get here hold no digit, and the engine parses no date
\* out of a text without a number: Invalid Date.
NativeDate(dateString) == InvalidDate

\* The captures read as day, month, year
DateOfMatchDayFirst(match) ==
    MakeDate(ToNumber(match[3]), ToNumber(match[2]) - 1, ToNumber(match[1]))

\* new Date(match[3] || match[1], (match[1] || match[2]) - 1, match[2] || match[3]):
\* a captured group is a non-empty string, hence truthy, so the first operand
\* of each || is taken
DateOfMatch(match) ==
    MakeDate(ToNumber(match[3]), ToNumber(match[1]) - 1, ToNumber(match[2]))

\* The first format, from the k-th on, that matches; 0 when none does
RECURSIVE FirstFormat(_, _)
FirstFormat(dateString, k) ==
    IF k > Len(DateFormats) THEN 0
    ELSE IF MatchStarts(dateString, DateFormats[k]) # {} THEN k
    ELSE FirstFormat(dateString, k + 1)

\* The for loop over `formats`, then the fallback
DateByFormat(dateString, k) ==
    IF k = 0 THEN NativeDate(dateString)
    ELSE DateOfMatch(RegexMatch(dateString, DateFormats[k]))

TryFormats(dateString) == DateByFormat(dateString, FirstFormat(dateString, 1))

parseDate(dateStr) ==
    IF dateStr = <<>> THEN ValidDate(0) ELSE TryFormats(dateStr)

\* dateB - dateA of two Date objects; NaN when either is invalid.  The sort
\* reads a NaN from its comparator as +0.
NaNToZero(dateX, dateY, diff) == IF dateX.valid /\ dateY.valid THEN diff ELSE 0

-----------------------------------------------------------------------------
(* Array.prototype.sort, as the engine that runs the script sorts an array  *)
(* of fewer than 64 elements: the leading run is found (and reversed when   *)
(* strictly descending), then the other elements are inserted one by one by *)
(* binary search.  With a consistent comparator this is any stable sort;    *)
(* with an inconsistent one (NaN differences) it is this order.             *)

\* What the comparators compute of an element {record, index}: its parsed
\* date and its completeness score (both pure, so computed once per element)
Keyed(arr) ==
    [k \in 1..Len(arr) |->
        [item  |-> arr[k],
         date  |-> parseDate(arr[k].record.date),
         score |-> calculateCompletenessScore(arr[k].record)]]

Unkeyed(arr) == [k \in 1..Len(arr) |-> arr[k].item]

\* The comparators handed to sort(), by name; a and b are keyed elements
Compare(kind, a, b) ==
    CASE kind = "newestFirst" -> NaNToZero(a.date, b.date, b.date.t - a.date.t)
      [] kind = "oldestFirst" -> NaNToZero(a.date, b.date, a.date.t - b.date.t)
      [] kind = "mostComplete" ->
            IF b.score # a.score THEN b.score - a.score
            ELSE NaNToZero(a.date, b.date, b.date.t - a.date.t)

\* Whether the run that began at arr[1] stops before arr[idx]
RunBreaks(arr, kind, isDescending, idx) ==
    (Compare(kind, arr[idx], arr[idx - 1]) < 0) # isDescending

RECURSIVE RunLength(_, _, _, _, _)
RunLength(arr, kind, isDescending, idx, len) ==
    IF idx > Len(arr) \/ RunBreaks(arr, kind, isDescending, idx) THEN len
    ELSE RunLength(arr, kind, isDescending, idx + 1, len + 1)

Reverse(s) == [k \in 1..Len(s) |-> s[Len(s) + 1 - k]]

\* 0-based insertion point of pivot in arr[0..right-1]
RECURSIVE InsertionPoint(_, _, _, _, _)
InsertionPoint(arr, kind, pivot, left, right) ==
    IF left >= right THEN left
    ELSE LET mid   == left + ((right - left) \div 2)
             below == Compare(kind, pivot, arr[mid + 1]) < 0
         IN  InsertionPoint(arr, kind, pivot,
                            IF below THEN left ELSE mid + 1,
                            IF below THEN mid ELSE right)

\* start is the 0-based index of the next element to insert
RECURSIVE BinaryInsertionSort(_, _, _)
BinaryInsertionSort(arr, kind, start) ==
    IF start >= Len(arr) THEN arr
    ELSE LET pivot == arr[start + 1]
             left  == InsertionPoint(arr, kind, pivot, 0, start)
             moved == SubSeq(arr, 1, left) \o <<pivot>> \o SubSeq(arr, left + 1, start)
                      \o SubSeq(arr, start + 2, Len(arr))
         IN  BinaryInsertionSort(moved, kind, start + 1)

SortKeyed(arr, kind) ==
    IF Len(arr) < 2 THEN arr
    ELSE LET isDescending == Compare(kind, arr[2], arr[1]) < 0
             run == RunLength(arr, kind, isDescending, 3, 2)
             made == IF isDescending
                     THEN Reverse(SubSeq(arr, 1, run)) \o SubSeq(arr, run + 1, Len(arr))
                     ELSE arr
         IN  BinaryInsertionSort(made, kind, run)

ArraySort(arr, kind) == Unkeyed(SortKeyed(Keyed(arr), kind))

-----------------------------------------------------------------------------
(* findDuplicatesInDataset: the inner loop over j *)

\* acc = [duplicates, processed]; j is the 0-based inner index
\* The inner loop without its test of processed.has(j)
RECURSIVE InnerLoopNoSkip(_, _, _, _)
InnerLoopNoSkip(d, record1, j, acc) ==
    IF j >= Len(d) THEN acc
    ELSE InnerLoopNoSkip(d, record1, j + 1,
             IF areRecordsDuplicate(record1, d[j + 1])
             THEN [duplicates |-> Append(acc.duplicates, [record |-> d[j + 1], index |-> j]),
                   processed  |-> acc.processed \cup {j}]
             ELSE acc)

\* The inner loop comparing record j with every record the group holds so far
RECURSIVE InnerLoopChained(_, _, _, _)
InnerLoopChained(d, record1, j, acc) ==
    IF j >= Len(d) THEN acc
    ELSE InnerLoopChained(d, record1, j + 1,
             IF /\ j \notin acc.processed
                /\ \E k \in 1..Len(acc.duplicates) :
                       areRecordsDuplicate(acc.duplicates[k].record, d[j + 1])
             THEN [duplicates |-> Append(acc.duplicates, [record |-> d[j + 1], index |-> j]),
                   processed  |-> acc.processed \cup {j}]
             ELSE acc)

RECURSIVE InnerLoop(_, _, _, _)
InnerLoop(d, record1, j, acc) ==
    IF j >= Len(d) THEN acc
    ELSE InnerLoop(d, record1, j + 1,
             IF j \notin acc.processed /\ areRecordsDuplicate(record1, d[j + 1])
             THEN [duplicates |-> Append(acc.duplicates, [record |-> d[j + 1], index |-> j]),
                   processed  |-> acc.processed \cup {j}]
             ELSE acc)

-----------------------------------------------------------------------------
(* Duplicate handling: removeOldestDuplicates, removeNewestDuplicates *)

\* The filter reading indicesToRemove as one-based positions
RECURSIVE FilterOutOneBased(_, _, _)
FilterOutOneBased(d, indicesToRemove, k) ==
    IF k > Len(d) THEN <<>>
    ELSE (IF k \in indicesToRemove THEN <<>> ELSE <<d[k]>>)
         \o FilterOutOneBased(d, indicesToRemove, k + 1)

\* data.filter((_, index) => !indicesToRemove.has(index))
RECURSIVE FilterOut(_, _, _)
FilterOut(d, indicesToRemove, k) ==
    IF k > Len(d) THEN <<>>
    ELSE (IF (k - 1) \in indicesToRemove THEN <<>> ELSE <<d[k]>>)
         \o FilterOut(d, indicesToRemove, k + 1)

Indices(records) == {records[k].index : k \in 1..Len(records)}

RemoveActions(group, sortedRecords, reason) ==
    [k \in 1..(Len(sortedRecords) - 1) |->
        [action        |-> "remove",
         reason        |-> reason,
         groupId       |-> group.groupId,
         removedIndex  |-> sortedRecords[k + 1].index,
         removedRecord |-> sortedRecords[k + 1].record,
         keptRecord    |-> sortedRecords[1].record]]

\* The body of the forEach, given the sorted array; acc = [groups, actions,
\* indicesToRemove].  group.records.sort() sorts the group's own array in place.
RemoveInGroup(acc, group, sortedRecords, reason) ==
    [groups  |-> Append(acc.groups, [group EXCEPT !.records = sortedRecords]),
     actions |-> acc.actions \o RemoveActions(group, sortedRecords, reason),
     indicesToRemove |-> acc.indicesToRemove \cup Indices(Tail(sortedRecords))]

RECURSIVE RemoveEach(_, _, _, _, _)
RemoveEach(groups, kind, reason, g, acc) ==
    IF g > Len(groups) THEN acc
    ELSE RemoveEach(groups, kind, reason, g + 1,
             RemoveInGroup(acc, groups[g], ArraySort(groups[g].records, kind), reason))

\* "Remove duplicates from data" and the return
RemoveFinal(d, r) ==
    [processedData |-> FilterOut(d, r.indicesToRemove, 1),
     actions       |-> r.actions,
     groups        |-> r.groups]

RemoveResult(d, groups, kind, reason) ==
    RemoveFinal(d, RemoveEach(groups, kind, reason, 1,
                    [groups |-> <<>>, actions |-> <<>>, indicesToRemove |-> {}]))

removeOldestDuplicates(d, groups) ==
    RemoveResult(d, groups, "newestFirst", "older_duplicate")

removeNewestDuplicates(d, groups) ==
    RemoveResult(d, groups, "oldestFirst", "newer_duplicate")

-----------------------------------------------------------------------------
(* mergeDuplicates *)

\* s.split(','): the pieces between the commas; one empty piece for ''
RECURSIVE Split(_, _)
Split(s, piece) ==
    IF s = <<>> THEN <<piece>>
    ELSE (IF Head(s) = "," THEN <<piece>> ELSE <<>>)
         \o Split(Tail(s), IF Head(s) = "," THEN <<>> ELSE Append(piece, Head(s)))

\* .split(',').map(s => s.trim())
Tokens(s) == LET pieces == Split(s, <<>>) IN [k \in 1..Len(pieces) |-> Trim(pieces[k])]

\* Adding to a Set keeps the insertion order and skips what it holds
RECURSIVE AddAll(_, _)
AddAll(set, items) ==
    IF items = <<>> THEN set
    ELSE AddAll(IF Head(items) \in Range(set) THEN set ELSE Append(set, Head(items)),
                Tail(items))

CommitmentSeparator == <<",", " ">>
AdditionalSeparator == <<" ", "|", " ">>

\* The fill without its test that the merged record's field is empty
FillMissingOverwrite(mergedRecord, recordToMerge) ==
    [field \in DOMAIN mergedRecord |->
        IF /\ field \in StringFields
           /\ IsFilled(recordToMerge[field])
        THEN recordToMerge[field]
        ELSE mergedRecord[field]]

\* "Fill in missing fields": Object.keys(recordToMerge).forEach(...).  The
\* _originalIndex of recordToMerge is a number, never copied.
FillMissing(mergedRecord, recordToMerge) ==
    [field \in DOMAIN mergedRecord |->
        IF /\ field \in StringFields
           /\ ~IsFilled(mergedRecord[field])
           /\ IsFilled(recordToMerge[field])
        THEN recordToMerge[field]
        ELSE mergedRecord[field]]

\* "Combine commitments": existingCommitments is a Set of the merged record's
\* tokens, to which the tokens of recordToMerge are added
CombineCommitments(mergedRecord, recordToMerge) ==
    IF /\ recordToMerge.commitments # <<>>
       /\ mergedRecord.commitments # recordToMerge.commitments
    THEN [mergedRecord EXCEPT !.commitments =
             Join(AddAll(AddAll(<<>>, Tokens(mergedRecord.commitments)),
                         Tokens(recordToMerge.commitments)),
                  CommitmentSeparator)]
    ELSE mergedRecord

\* "Combine additional comments"
CombineAdditional(mergedRecord, recordToMerge) ==
    IF /\ recordToMerge.additional # <<>>
       /\ mergedRecord.additional # recordToMerge.additional
    THEN IF mergedRecord.additional = <<>>
         THEN [mergedRecord EXCEPT !.additional = recordToMerge.additional]
         ELSE [mergedRecord EXCEPT !.additional =
                  @ \o AdditionalSeparator \o recordToMerge.additional]
    ELSE mergedRecord

\* The body of the loop over sortedRecords[1..]
MergeOne(mergedRecord, recordToMerge) ==
    CombineAdditional(
        CombineCommitments(FillMissing(mergedRecord, recordToMerge), recordToMerge),
        recordToMerge)

RECURSIVE MergeFrom(_, _, _)
MergeFrom(sortedRecords, k, mergedRecord) ==
    IF k > Len(sortedRecords) THEN mergedRecord
    ELSE MergeFrom(sortedRecords, k + 1, MergeOne(mergedRecord, sortedRecords[k].record))

MergedRecordOf(sortedRecords) == MergeFrom(sortedRecords, 2, sortedRecords[1].record)

\* sortedRecords.slice(1).map(r => r.index)
IndexList(records) == [k \in 1..Len(records) |-> records[k].index]

\* The body of the forEach, given the sorted array and the merged record;
\* acc = [groups, actions, indicesToRemove, processedData]
MergeInGroup(acc, group, sortedRecords, mergedRecord) ==
    [groups  |-> Append(acc.groups, [group EXCEPT !.records = sortedRecords]),
     actions |-> Append(acc.actions,
         [action        |-> "merge",
          reason        |-> "duplicate_merge",
          groupId       |-> group.groupId,
          baseIndex     |-> sortedRecords[1].index,
          mergedIndices |-> IndexList(Tail(sortedRecords)),
          mergedRecord  |-> mergedRecord]),
     indicesToRemove |-> acc.indicesToRemove \cup Indices(Tail(sortedRecords)),
     processedData |->
         [acc.processedData EXCEPT ![sortedRecords[1].index + 1] = mergedRecord]]

MergeSorted(acc, group, sortedRecords) ==
    MergeInGroup(acc, group, sortedRecords, MergedRecordOf(sortedRecords))

RECURSIVE MergeEach(_, _, _)
MergeEach(groups, g, acc) ==
    IF g > Len(groups) THEN acc
    ELSE MergeEach(groups, g + 1,
             MergeSorted(acc, groups[g], ArraySort(groups[g].records, "mostComplete")))

\* "Remove merged duplicates" and the return
MergeFinal(r) ==
    [processedData |-> FilterOut(r.processedData, r.indicesToRemove, 1),
     actions       |-> r.actions,
     groups        |-> r.groups]

mergeDuplicates(d, groups) ==
    MergeFinal(MergeEach(groups, 1,
                   [groups |-> <<>>, actions |-> <<>>, indicesToRemove |-> {},
                    processedData |-> d]))

-----------------------------------------------------------------------------
(* markDuplicatesForReview *)

\* The flags with duplicate_count counting the other members of the group
ReviewFieldsCountingOthers(group, record) ==
    [duplicate_flag     |-> [prefix |-> "DUPLICATE_GROUP_", groupId |-> group.groupId],
     duplicate_count    |-> Len(group.records) - 1,
     completeness_score |-> calculateCompletenessScore(record)]

ReviewFields(group, record) ==
    [duplicate_flag     |-> [prefix |-> "DUPLICATE_GROUP_", groupId |-> group.groupId],
     duplicate_count    |-> Len(group.records),
     completeness_score |-> calculateCompletenessScore(record)]

MarkActions(group) ==
    [k \in 1..Len(group.records) |->
        [action  |-> "mark",
         reason  |-> "duplicate_review",
         groupId |-> group.groupId,
         index   |-> group.records[k].index,
         record  |-> group.records[k].record]]

\* The inner forEach flagging the k-th record of the collection for the
\* k-th member of the group
RECURSIVE MarkMembersByPosition(_, _, _)
MarkMembersByPosition(group, k, pd) ==
    IF k > Len(group.records) THEN pd
    ELSE MarkMembersByPosition(group, k + 1,
             [pd EXCEPT ![k] = ReviewFields(group, group.records[k].record) @@ @])

\* The inner forEach: assigning a field that exists overwrites it
RECURSIVE MarkMembers(_, _, _)
MarkMembers(group, k, pd) ==
    IF k > Len(group.records) THEN pd
    ELSE MarkMembers(group, k + 1,
             [pd EXCEPT ![group.records[k].index + 1] =
                 ReviewFields(group, group.records[k].record) @@ @])

RECURSIVE MarkEach(_, _, _)
MarkEach(groups, g, acc) ==
    IF g > Len(groups) THEN acc
    ELSE MarkEach(groups, g + 1,
             [processedData |-> MarkMembers(groups[g], 1, acc.processedData),
              actions       |-> acc.actions \o MarkActions(groups[g])])

markDuplicatesForReview(d, groups) ==
    [groups |-> groups] @@ MarkEach(groups, 1, [processedData |-> d, actions |-> <<>>])

-----------------------------------------------------------------------------
(* processDuplicates: the switch on CONFIG.strategy *)

Strategies == {"review", "remove_oldest", "remove_newest", "merge"}

processDuplicatesResult(d, groups, strat) ==
    CASE strat = "remove_oldest" -> removeOldestDuplicates(d, groups)
      [] strat = "remove_newest" -> removeNewestDuplicates(d, groups)
      [] strat = "merge"         -> mergeDuplicates(d, groups)
      [] OTHER                   -> markDuplicatesForReview(d, groups)

-----------------------------------------------------------------------------
(* Input collections *)

\* A record of the sheet; the fields not listed are empty
Rec(email, center, date, department, commitments, additional) ==
    [representative |-> <<>>, center |-> center, email |-> email,
     department |-> department, locality |-> <<>>, province |-> <<>>,
     region |-> <<>>, commitments |-> commitments, additional |-> additional,
     date |-> date]

\* loadMainDatabase: record._originalIndex = index
Loaded(rows) == [k \in 1..Len(rows) |-> ("_originalIndex" :> (k - 1)) @@ rows[k]]

Email1 == <<"a", "@", "x">>
Email2 == <<"b", "@", "x">>
Center1 == <<"I", "E", "S", " ", "a", "b">>
Center2 == <<"c", "d">>
Date1 == <<"0","1","/","0","3","/","2","0","2","4">>
Date2 == <<"1","5","/","0","1","/","2","0","2","4">>
DateText == <<"n", "/", "a">>

\* Records that differ in what the classifier reads: sharing an email, a
\* center name, both or neither
ClusterRecords ==
    {Rec(e, c, <<>>, <<>>, <<>>, <<>>) : e \in {<<>>, Email1, Email2}, c \in {Center1, Center2}}

\* Records that differ in their date: absent, two D/M/Y dates, a text no
\* format matches.  The records of one email are duplicates of each other.
DatedRecords ==
    {Rec(Email1, Center1, dt, <<>>, <<>>, <<>>) : dt \in {<<>>, Date1, Date2, DateText}}
    \cup {Rec(Email2, Center2, dt, <<>>, <<>>, <<>>) : dt \in {<<>>, Date1, Date2, DateText}}

\* Records of one center that differ in one of the fields the merge fills,
\* unites or concatenates, and one record of another center
Departments == {<<" ">>, <<"d">>, <<"e">>}
Commitments == {<<"a">>, <<"b">>, <<"a", ",", "a">>, <<"a", ",", " ", "b">>, <<",">>, <<",", ",">>}
Additionals == {<<"x">>, <<"y">>}

MergeRecords ==
    {Rec(Email1, Center1, <<>>, <<>>, <<>>, <<>>)}
    \cup {Rec(Email1, Center1, <<>>, dp, <<>>, <<>>) : dp \in Departments}
    \cup {Rec(Email1, Center1, <<>>, <<>>, cm, <<>>) : cm \in Commitments}
    \cup {Rec(Email1, Center1, <<>>, <<>>, <<>>, ad) : ad \in Additionals}
    \cup {Rec(Email1, Center1, <<>>, <<"d">>, <<"a">>, <<"x">>),
          Rec(Email2, Center2, <<>>, <<"e">>, <<"b">>, <<"y">>)}

\* The state main() starts from, for a set of records, a longest length and
\* the strategies CONFIG.strategy may name
Start(records, maxLen, strategies) ==
    /\ \E n \in 1..maxLen : \E rows \in [1..n -> records] : data = Loaded(rows)
    /\ strategy \in strategies
    /\ pc = "find"
    /\ i = 0
    /\ processed = {}
    /\ duplicateGroups = <<>>
    /\ processedData = <<>>
    /\ actions = <<>>
    /\ call = [fn |-> "main", args |-> <<>>]
    /\ returned = <<>>

-----------------------------------------------------------------------------
(* main() *)

Init == Start(ClusterRecords, MaxRecords, Strategies)

InitResolve == Start(DatedRecords, MaxGroup, {"remove_oldest", "remove_newest"})

InitMerge == Start(MergeRecords, MaxGroup, {"merge"})

InitMergeDated == Start(DatedRecords, MaxGroup, {"merge"})

\* The inner loop started at j = 0 instead of j = i + 1
ScanForFromStart(d, idx, done) ==
    InnerLoop(d, d[idx + 1], 0,
              [duplicates |-> <<[record |-> d[idx + 1], index |-> idx]>>,
               processed  |-> done])

\* The duplicates of data[i] and the indices claimed, after the inner loop
ScanFor(d, idx, done) ==
    InnerLoop(d, d[idx + 1], idx + 1,
              [duplicates |-> <<[record |-> d[idx + 1], index |-> idx]>>,
               processed  |-> done])

\* One pass of the outer loop of findDuplicatesInDataset
FindIteration ==
    /\ pc = "find"
    /\ i < Len(data) - 1
    /\ i' = i + 1
    /\ IF i \in processed
       THEN UNCHANGED <<processed, duplicateGroups>>
       ELSE \E found \in {ScanFor(data, i, processed)} :
                IF Len(found.duplicates) > 1
                THEN /\ duplicateGroups' =
                            Append(duplicateGroups,
                                   [groupId |-> Len(duplicateGroups) + 1,
                                    records |-> found.duplicates])
                     /\ processed' = found.processed \cup {i}
                ELSE /\ processed' = found.processed
                     /\ UNCHANGED duplicateGroups
    /\ UNCHANGED <<data, strategy, pc, processedData, actions, call, returned>>

\* findDuplicatesInDataset returns; main() stops when there is no group
FindReturn ==
    /\ pc = "find"
    /\ i >= Len(data) - 1
    /\ pc' = IF Len(duplicateGroups) = 0 THEN "done" ELSE "process"
    /\ UNCHANGED <<data, strategy, i, processed, duplicateGroups, processedData, actions,
                   call, returned>>

ProcessDuplicates ==
    /\ pc = "process"
    /\ \E result \in {processDuplicatesResult(data, duplicateGroups, strategy)} :
           /\ processedData' = result.processedData
           /\ actions' = result.actions
           /\ duplicateGroups' = result.groups
    /\ pc' = "done"
    /\ UNCHANGED <<data, strategy, i, processed, call, returned>>

Next == FindIteration \/ FindReturn \/ ProcessDuplicates

Spec == Init /\ [][Next]_vars

SpecResolve == InitResolve /\ [][Next]_vars

\* Names --strategy may set CONFIG.strategy to that the switch has no case for
UnknownStrategies == {"keep_all", "MERGE"}

\* main() after a --strategy override naming no strategy of the tool
InitOverride == Start(ClusterRecords, MaxGroup, UnknownStrategies)

SpecOverride == InitOverride /\ [][Next]_vars

SpecMerge == InitMerge /\ [][Next]_vars

SpecMergeDated == InitMergeDated /\ [][Next]_vars

-----------------------------------------------------------------------------
(* Functions called on their own *)

\* The state before a call of fn with arguments drawn from argSets: main()
\* is not running
Calling(fn, argSets) ==
    /\ \E args \in argSets : call = [fn |-> fn, args |-> args]
    /\ returned = <<>>
    /\ pc = "call"
    /\ data = <<>>
    /\ strategy = "review"
    /\ i = 0
    /\ processed = {}
    /\ duplicateGroups = <<>>
    /\ processedData = <<>>
    /\ actions = <<>>

main == <<data, strategy, i, processed, duplicateGroups, processedData, actions>>

\* Records that differ in every field areRecordsDuplicate reads
ClassifyEmails == {<<>>, <<" ">>, Email1, <<"A", "@", "x", " ">>, Email2}
ClassifyCenters ==
    {<<>>,
     <<"a", "b", "c", "d", "e", "f", "g">>,
     <<"I", "E", "S", " ", "a", "b", "c", "d", "e", "f", "x">>,
     <<"a", "b", "c", "d", "e", "x", "y">>,
     <<"a", "b", "c", "d", "x", "y", "z">>}
ClassifyLocalities == {<<>>, <<"m", "a", "d">>, <<"m", "a", "r">>}
ClassifyRepresentatives == {<<>>, <<" ">>, <<"p">>, <<"q">>}

ClassifyRecords ==
    {[Rec(e, c, <<>>, <<>>, <<>>, <<>>) EXCEPT !.locality = l, !.representative = r] :
        e \in ClassifyEmails, c \in ClassifyCenters,
        l \in ClassifyLocalities, r \in ClassifyRepresentatives}

InitClassify == Calling("areRecordsDuplicate", ClassifyRecords \X ClassifyRecords)

CallAreRecordsDuplicate ==
    /\ pc = "call"
    /\ call.fn = "areRecordsDuplicate"
    /\ returned' = <<areRecordsDuplicate(call.args[1], call.args[2])>>
    /\ pc' = "returned"
    /\ UNCHANGED <<main, call>>

SpecClassify == InitClassify /\ [][CallAreRecordsDuplicate]_vars

------------------------------------------------------------------------------
(* calculateSimilarity called on its own *)

\* Strings that differ in case, in the white space around them and in length
SimilarityStrings ==
    {<<>>, <<" ">>, <<" ", " ">>, <<"a">>, <<"A">>, <<" ", "a">>,
     <<"a", "b">>, <<"A", "b", " ">>, <<"b", "a">>, <<"x", "y">>,
     <<"a", "b", "c">>, <<"a", "c", "b", "d">>, <<"K", "i", "t", "e">>}

InitSimilarity ==
    Calling("calculateSimilarity", SimilarityStrings \X SimilarityStrings)

CallCalculateSimilarity ==
    /\ pc = "call"
    /\ call.fn = "calculateSimilarity"
    /\ returned' = <<calculateSimilarity(call.args[1], call.args[2])>>
    /\ pc' = "returned"
    /\ UNCHANGED <<main, call>>

SpecSimilarity == InitSimilarity /\ [][CallCalculateSimilarity]_vars

------------------------------------------------------------------------------
(* cleanText, of process-spread1.js and of the region normaliser *)

\* s.replace(/^\s*\u2060\s*/, '')
StripLeadingJoiner(s) ==
    IF TrimStart(s) # <<>> /\ Head(TrimStart(s)) = WordJoiner
    THEN TrimStart(Tail(TrimStart(s)))
    ELSE s

\* s.replace(/[chars]/g, '')
Remove(s, chars) == SelectSeq(s, LAMBDA c : c \notin chars)

\* s.replace(/\u00A0/g, ' ')
NBSPToSpace(s) == [k \in 1..Len(s) |-> IF s[k] = NBSP THEN " " ELSE s[k]]

\* [\u200B-\u200D\uFEFF]
ZeroWidth == {ZeroWidthSpace, ZeroWidthNonJoiner, ZeroWidthJoiner, BOM}

\* cleanText of a string; '' is the empty sequence
cleanText(text) ==
    IF text = <<>> THEN <<>>
    ELSE Remove(NBSPToSpace(Remove(StripLeadingJoiner(
             CollapseSpaces(Trim(text), <<>>)), {WordJoiner})), ZeroWidth)

\* The longest text cleanText is called with
MaxText == 4

\* The characters of the texts: a letter, a space and the invisible ones
TextChars == {"a", " ", NBSP, ZeroWidthSpace, WordJoiner}

Texts == UNION {[1..n -> TextChars] : n \in 0..MaxText}

InitClean == Calling("cleanText", {<<text>> : text \in Texts})

CallCleanText ==
    /\ pc = "call"
    /\ call.fn = "cleanText"
    /\ returned' = <<cleanText(call.args[1])>>
    /\ pc' = "returned"
    /\ UNCHANGED <<main, call>>

SpecClean == InitClean /\ [][CallCleanText]_vars

------------------------------------------------------------------------------
(* parseDate called on its own, on two strings one after the other *)

\* Calendar dates, as <<day, month, year>>
CalendarDates == {1, 2, 15} \X {1, 2} \X {2023, 2024}

\* A number written with two digits, and with four
TwoDigits(n) == <<Digits[(n \div 10) + 1], Digits[(n % 10) + 1]>>

FourDigits(n) == TwoDigits(n \div 100) \o TwoDigits(n % 100)

\* The date written in each of the formats the comments of `formats` name
DateStyles == {"D/M/Y", "Y-M-D", "D-M-Y"}

Written(style, date) ==
    CASE style = "D/M/Y" ->
             TwoDigits(date[1]) \o <<"/">> \o TwoDigits(date[2]) \o <<"/">>
                 \o FourDigits(date[3])
      [] style = "Y-M-D" ->
             FourDigits(date[3]) \o <<"-">> \o TwoDigits(date[2]) \o <<"-">>
                 \o TwoDigits(date[1])
      [] style = "D-M-Y" ->
             TwoDigits(date[1]) \o <<"-">> \o TwoDigits(date[2]) \o <<"-">>
                 \o FourDigits(date[3])

DateStrings == {Written(style, date) : style \in DateStyles, date \in CalendarDates}

InitDates == Calling("parseDate", DateStrings \X DateStrings)

\* parseDate(a.record.date) and parseDate(b.record.date) of a comparator: one
\* call for each string of call.args, in order
CallParseDate ==
    /\ pc = "call"
    /\ call.fn = "parseDate"
    /\ returned' = Append(returned, parseDate(call.args[Len(returned) + 1]))
    /\ pc' = IF Len(returned) + 1 = Len(call.args) THEN "returned" ELSE "call"
    /\ UNCHANGED <<main, call>>

SpecDates == InitDates /\ [][CallParseDate]_vars

------------------------------------------------------------------------------
(* get-signatures.js: exports.handler.  `call` holds the event, the            *)
(* NETLIFY_ACCESS_TOKEN of process.env and what the Netlify API does with the  *)
(* request; the site id only names the path requested.                         *)

\* The longest array of submissions the API answers with
MaxSubmissions == 2

\* A submission of the array: null, or an object whose data.name is absent
\* (name <<>>) or set, created on the day created_at
Submissions ==
    {[isNull |-> TRUE, name |-> <<>>, created_at |-> 0],
     [isNull |-> FALSE, name |-> <<>>, created_at |-> 1],
     [isNull |-> FALSE, name |-> <<"n">>, created_at |-> 1],
     [isNull |-> FALSE, name |-> <<"m">>, created_at |-> 2]}

\* A body that is no JSON text, and the bodies that are: an array of
\* submissions, or an object
NotJSON == [json |-> FALSE, isArray |-> FALSE, items |-> <<>>]

JSONObject == [json |-> TRUE, isArray |-> FALSE, items |-> <<>>]

JSONArrays ==
    {[json |-> TRUE, isArray |-> TRUE, items |-> items] :
        items \in UNION {[1..n -> Submissions] : n \in 0..MaxSubmissions}}

\* What becomes of the request: a response with a status and a body, or an
\* 'error' event
Upstreams ==
    {[kind |-> "response", statusCode |-> 200, body |-> body] :
        body \in {NotJSON, JSONObject} \cup JSONArrays}
    \cup {[kind |-> "response", statusCode |-> status, body |-> NotJSON] :
              status \in {404, 500}}
    \cup {[kind |-> "error", statusCode |-> 0, body |-> NotJSON]}

HttpMethods == {"OPTIONS", "GET", "POST"}

InitHandler ==
    /\ \E method \in HttpMethods, accessToken \in {<<>>, <<"t">>}, api \in Upstreams :
           call = [fn |-> "handler",
                   args |-> <<[httpMethod |-> method]>>,
                   env |-> [NETLIFY_ACCESS_TOKEN |-> accessToken],
                   api |-> api]
    /\ returned = <<>>
    /\ pc = "call"
    /\ data = <<>>
    /\ strategy = "review"
    /\ i = 0
    /\ processed = {}
    /\ duplicateGroups = <<>>
    /\ processedData = <<>>
    /\ actions = <<>>

\* The object the handler resolves with
Response(statusCode, body) == [statusCode |-> statusCode, body |-> body]

\* The handler up to its first await: the returns of lines 12, 16 and 29,
\* or the request sent and the promise pending
HandlerStart ==
    /\ pc = "call"
    /\ call.fn = "handler"
    /\ IF call.args[1].httpMethod = "OPTIONS"
       THEN returned' = <<Response(200, <<>>)>> /\ pc' = "returned"
       ELSE IF call.args[1].httpMethod # "GET"
       THEN returned' = <<Response(405, "Method not allowed")>> /\ pc' = "returned"
       ELSE IF call.env.NETLIFY_ACCESS_TOKEN = <<>>
       THEN /\ returned' = <<Response(500, "Access token not configured")>>
            /\ pc' = "returned"
       ELSE returned' = returned /\ pc' = "awaiting"
    /\ UNCHANGED <<main, call>>

\* .filter(submission => submission.data && submission.data.name) and .map:
\* the name and the day of each submission that has a name
Signatories(items) ==
    [k \in 1..Len(SelectSeq(items, LAMBDA submission : submission.name # <<>>)) |->
        [name |-> SelectSeq(items, LAMBDA submission : submission.name # <<>>)[k].name,
         date |-> SelectSeq(items, LAMBDA submission : submission.name # <<>>)[k].created_at]]

\* .sort((a, b) => new Date(b.date) - new Date(a.date)): most recent first,
\* equal days in their order; the days of the model all parse
RECURSIVE InsertRecent(_, _, _)
InsertRecent(sorted, signatory, k) ==
    IF k > Len(sorted) THEN Append(sorted, signatory)
    ELSE IF sorted[k].date < signatory.date
    THEN SubSeq(sorted, 1, k - 1) \o <<signatory>> \o SubSeq(sorted, k, Len(sorted))
    ELSE InsertRecent(sorted, signatory, k + 1)

RECURSIVE SortRecent(_, _, _)
SortRecent(signatories, k, sorted) ==
    IF k > Len(signatories) THEN sorted
    ELSE SortRecent(signatories, k + 1, InsertRecent(sorted, signatories[k], 1))

\* Lines 66-94 and the catch: data.filter is no function when data is not an
\* array, and submission.data throws on a null submission
Continuation(parsed) ==
    IF ~parsed.isArray \/ (\E k \in 1..Len(parsed.items) : parsed.items[k].isNull)
    THEN Response(500, "Failed to fetch signatures")
    ELSE Response(200, SortRecent(Signatories(parsed.items), 1, <<>>))

\* The 'end' listener of the response, and what the handler does once the
\* promise settles.  JSON.parse throws inside the listener, outside the
\* promise executor and outside the try of the handler: the exception is
\* uncaught and the promise is never settled.
ResponseEnd ==
    /\ pc = "awaiting"
    /\ call.api.kind = "response"
    /\ IF call.api.statusCode # 200
       THEN returned' = <<Response(500, "Failed to fetch signatures")>> /\ pc' = "returned"
       ELSE IF ~call.api.body.json
       THEN returned' = returned /\ pc' = "uncaught"
       ELSE returned' = <<Continuation(call.api.body)>> /\ pc' = "returned"
    /\ UNCHANGED <<main, call>>

\* req.on('error', reject), and the catch of the handler
RequestError ==
    /\ pc = "awaiting"
    /\ call.api.kind = "error"
    /\ returned' = <<Response(500, "Failed to fetch signatures")>>
    /\ pc' = "returned"
    /\ UNCHANGED <<main, call>>

NextHandler == HandlerStart \/ ResponseEnd \/ RequestError

\* The event loop runs every callback that is ready, and the request made
\* comes to an end
SpecHandler == InitHandler /\ [][NextHandler]_vars /\ WF_vars(NextHandler)

-----------------------------------------------------------------------------
(* merge-datasets.js: findDuplicates.  Its calculateSimilarity,               *)
(* normalizeCenterName and createLocationKey (lines 31-85) are those of       *)
(* detect-duplicates-main.js, character for character.                        *)

\* The longest of the two collections findDuplicates is called with
MaxSpread == 2

SimilarityCenterName == 85
SimilarityLocation == 80
SimilarityModerateName == 70

\* loadSpread1Data, loadSpread2Data: ..._source, _index: index
LoadedSpread(rows, source) ==
    [k \in 1..Len(rows) |-> ("_source" :> source) @@ ("_index" :> (k - 1)) @@ rows[k]]

crossNameSimilarity(record1, record2) ==
    calculateSimilarity(normalizeCenterName(record1.center),
                        normalizeCenterName(record2.center))

crossLocationSimilarity(record1, record2) ==
    calculateSimilarity(createLocationKey(record1), createLocationKey(record2))

\* isDuplicate of two similarities
IsDuplicate(nameSimilarity, locationSimilarity) ==
    \/ AtLeast(nameSimilarity, SimilarityCenterName)
    \/ /\ AtLeast(nameSimilarity, SimilarityModerateName)
       /\ AtLeast(locationSimilarity, SimilarityLocation)

\* The object pushed to `duplicates`
DuplicatePair(record1, record2, i1, j2, nameSimilarity, locationSimilarity) ==
    [spread1_record      |-> record1,
     spread2_record      |-> record2,
     spread1_index       |-> i1,
     spread2_index       |-> j2,
     name_similarity     |-> nameSimilarity,
     location_similarity |-> locationSimilarity,
     match_reason        |-> IF AtLeast(nameSimilarity, SimilarityCenterName)
                             THEN "name_match" ELSE "name_location_match"]

\* The inner loop without its break: the last j whose record is a duplicate
RECURSIVE LastDuplicate(_, _, _)
LastDuplicate(record1, spread2Data, j2) ==
    IF j2 >= Len(spread2Data) THEN -1
    ELSE IF \E j \in (j2 + 1)..(Len(spread2Data) - 1) :
                IsDuplicate(crossNameSimilarity(record1, spread2Data[j + 1]),
                            crossLocationSimilarity(record1, spread2Data[j + 1]))
    THEN LastDuplicate(record1, spread2Data, j2 + 1)
    ELSE IF IsDuplicate(crossNameSimilarity(record1, spread2Data[j2 + 1]),
                        crossLocationSimilarity(record1, spread2Data[j2 + 1]))
    THEN j2
    ELSE -1

\* The inner loop: the first j, from j2 on, whose record is a duplicate of
\* record1 (the loop breaks there); -1 when there is none
RECURSIVE FirstDuplicate(_, _, _)
FirstDuplicate(record1, spread2Data, j2) ==
    IF j2 >= Len(spread2Data) THEN -1
    ELSE IF IsDuplicate(crossNameSimilarity(record1, spread2Data[j2 + 1]),
                        crossLocationSimilarity(record1, spread2Data[j2 + 1]))
    THEN j2
    ELSE FirstDuplicate(record1, spread2Data, j2 + 1)

PushFound(duplicates, record1, spread2Data, i1, j2) ==
    IF j2 < 0 THEN duplicates
    ELSE Append(duplicates,
                DuplicatePair(record1, spread2Data[j2 + 1], i1, j2,
                    crossNameSimilarity(record1, spread2Data[j2 + 1]),
                    crossLocationSimilarity(record1, spread2Data[j2 + 1])))

\* The outer loop.  processed.has(i) is false at every test: i is added to
\* `processed` in its own pass only.
RECURSIVE OuterLoop(_, _, _, _)
OuterLoop(spread1Data, spread2Data, i1, duplicates) ==
    IF i1 >= Len(spread1Data) THEN duplicates
    ELSE OuterLoop(spread1Data, spread2Data, i1 + 1,
             PushFound(duplicates, spread1Data[i1 + 1], spread2Data, i1,
                       FirstDuplicate(spread1Data[i1 + 1], spread2Data, 0)))

findDuplicates(spread1Data, spread2Data) == OuterLoop(spread1Data, spread2Data, 0, <<>>)

CallFindDuplicates ==
    /\ pc = "call"
    /\ call.fn = "findDuplicates"
    /\ returned' = <<findDuplicates(call.args[1], call.args[2])>>
    /\ pc' = "returned"
    /\ UNCHANGED <<main, call>>

\* The spread2 indices of the pairs, taken for the indices to leave out
DuplicateIndicesOfSpread2(duplicates) ==
    {duplicates[k].spread2_index : k \in 1..Len(duplicates)}

\* new Set(duplicates.map(dup => dup.spread1_index))
DuplicateIndices(duplicates) ==
    {duplicates[k].spread1_index : k \in 1..Len(duplicates)}

\* [...spread2Data] followed by the records of spread1Data whose index is not
\* in duplicateIndices
mergeDatasets(spread1Data, spread2Data, duplicates) ==
    spread2Data \o FilterOut(spread1Data, DuplicateIndices(duplicates), 1)

\* main() of merge-datasets.js calls mergeDatasets with what findDuplicates
\* returned; `returned` then holds the duplicates and the merged collection
CallMergeDatasets ==
    /\ pc = "returned"
    /\ call.fn = "findDuplicates"
    /\ returned' = Append(returned,
                          mergeDatasets(call.args[1], call.args[2], returned[1]))
    /\ pc' = "merged"
    /\ UNCHANGED <<main, call>>

\* The sequences of 1..maxLen records of a set
Rows(records, maxLen) == UNION {[1..n -> records] : n \in 1..maxLen}

\* Records that differ in their center name and locality
LopeDeVega == <<"L","o","p","e"," ","d","e"," ","V","e","g","a">>
IESLopeDeVega == <<"I","E","S"," ">> \o LopeDeVega
LopeDeRueda == <<"L","o","p","e"," ","d","e"," ","R","u","e","d","a">>
Madrid == <<"M","a","d","r","i","d">>

Named(center, locality) ==
    [Rec(<<>>, center, <<>>, <<>>, <<>>, <<>>) EXCEPT !.locality = locality]

NamedRecords ==
    {Named(IESLopeDeVega, Madrid), Named(LopeDeVega, Madrid),
     Named(LopeDeRueda, Madrid), Named(LopeDeRueda, <<>>)}

InitNamed == Start(NamedRecords, MaxGroup, {"review"})

InitNamedSpreads ==
    Calling("findDuplicates",
            {<<LoadedSpread(rows1, "spread1"), LoadedSpread(rows2, "spread2")>> :
                rows1 \in Rows(NamedRecords, MaxSpread),
                rows2 \in Rows(NamedRecords, MaxSpread)})

\* The names clustered in one collection, or matched across two
InitNames == InitNamed \/ InitNamedSpreads

NextNames == Next \/ CallFindDuplicates \/ CallMergeDatasets

SpecNamed == InitNames /\ [][NextNames]_vars

-----------------------------------------------------------------------------
(* The clustering pass *)

\* The indices of a group's records, and of the records of all groups
Members(group) == Indices(group.records)

AllMembers == UNION {Members(duplicateGroups[g]) : g \in 1..Len(duplicateGroups)}

\* processDuplicates has returned
Resolved == pc = "done" /\ duplicateGroups # <<>>

\* C1: no record index appears in more than one duplicate group, as the base
\* member or as an added member, at any point of findDuplicatesInDataset and
\* after it returns.
NoIndexInTwoGroups ==
    \A g1, g2 \in 1..Len(duplicateGroups) :
        \A k1 \in 1..Len(duplicateGroups[g1].records),
           k2 \in 1..Len(duplicateGroups[g2].records) :
            duplicateGroups[g1].records[k1].index = duplicateGroups[g2].records[k2].index
                => (g1 = g2 /\ k1 = k2)

\* findDuplicatesInDataset has returned two groups
TwoGroupsFound == pc = "process" /\ Len(duplicateGroups) = 2

Duplicates(a, b) == areRecordsDuplicate(data[a + 1], data[b + 1])

\* Three records A, B, C: A and B duplicates, B and C duplicates, A and C not
ScenarioC ==
    /\ Len(data) = 3
    /\ Duplicates(0, 1)
    /\ Duplicates(1, 2)
    /\ ~Duplicates(0, 2)

\* C2: for three records A, B, C in index order where A and B classify as
\* duplicates, B and C classify as duplicates and A and C do not, the pass
\* returns exactly one group, holding A and B; C belongs to no group.
ChainNotFollowed ==
    (ScenarioC /\ pc # "find") =>
        /\ Len(duplicateGroups) = 1
        /\ Len(duplicateGroups[1].records) = 2
        /\ Members(duplicateGroups[1]) = {0, 1}
        /\ 2 \notin AllMembers

ScenarioCClustered == ScenarioC /\ pc = "process"

-----------------------------------------------------------------------------
(* processDuplicates *)

\* The sum over the groups, from the g-th on, of (group size - 1)
RECURSIVE SumAbsorbed(_, _)
SumAbsorbed(groups, g) ==
    IF g > Len(groups) THEN 0
    ELSE (Len(groups[g].records) - 1) + SumAbsorbed(groups, g + 1)

\* C3: under review the processed collection has as many records as the
\* input; under remove_oldest, remove_newest and merge it has the input's
\* length minus the sum over the duplicate groups of (group size - 1).
OutputSize ==
    Resolved =>
        Len(processedData) =
            IF strategy = "review" THEN Len(data)
            ELSE Len(data) - SumAbsorbed(duplicateGroups, 1)

TwoGroupsRemoved ==
    /\ Resolved
    /\ strategy = "remove_oldest"
    /\ Len(duplicateGroups) = 2

\* The records of a collection, in order, that came from no index of `members`
RECURSIVE Outside(_, _, _)
Outside(d, members, k) ==
    IF k > Len(d) THEN <<>>
    ELSE (IF d[k]._originalIndex \in members THEN <<>> ELSE <<d[k]>>)
         \o Outside(d, members, k + 1)

\* C4: under every strategy the input records that are members of no group
\* are in the processed collection with every field value unchanged and no
\* field added, in their input order.
NonMembersUntouched ==
    Resolved => Outside(processedData, AllMembers, 1) = Outside(data, AllMembers, 1)

\* A review of a collection whose first record is in no group
NonMemberReviewed ==
    /\ Resolved
    /\ strategy = "review"
    /\ 0 \notin AllMembers

-----------------------------------------------------------------------------
(* remove_oldest and remove_newest *)

ParsedDate(k) == parseDate(data[k + 1].date)

\* dateX > dateY, which is false when either is an Invalid Date
Newer(dateX, dateY) == dateX.valid /\ dateY.valid /\ dateX.t > dateY.t

\* The members of a group that are in the processed collection
Survivors(group) ==
    {m \in Members(group) :
        \E k \in 1..Len(processedData) : processedData[k]._originalIndex = m}

ActionsOf(group) == {k \in 1..Len(actions) : actions[k].groupId = group.groupId}

KeepsExtreme(group, kept) ==
    /\ Survivors(group) = {kept}
    /\ \A m \in Members(group) :
           IF strategy = "remove_oldest"
           THEN ~Newer(ParsedDate(m), ParsedDate(kept))
           ELSE ~Newer(ParsedDate(kept), ParsedDate(m))
    /\ Cardinality(ActionsOf(group)) = Cardinality(Members(group)) - 1
    /\ \A m \in Members(group) \ {kept} :
           \E k \in ActionsOf(group) :
               /\ actions[k].action = "remove"
               /\ actions[k].removedIndex = m
               /\ actions[k].removedRecord = data[m + 1]
               /\ actions[k].keptRecord = data[kept + 1]

\* C5: remove_oldest and remove_newest keep exactly one record of each group,
\* one no other member has a newer parsed date than (remove_oldest) or an
\* older parsed date than (remove_newest), drop every other member, and emit
\* exactly one 'remove' action per dropped record, whose keptRecord is the
\* record kept.
RemoveKeepsExtreme ==
    (Resolved /\ strategy \in {"remove_oldest", "remove_newest"}) =>
        \A g \in 1..Len(duplicateGroups) :
            \E kept \in Members(duplicateGroups[g]) :
                KeepsExtreme(duplicateGroups[g], kept)

\* A group of two records dated "01/03/2024" and "15/01/2024", remove_oldest
ScenarioD ==
    /\ Len(data) = 2
    /\ {data[1].date, data[2].date} = {Date1, Date2}
    /\ strategy = "remove_oldest"
    /\ Len(duplicateGroups) = 1
    /\ Members(duplicateGroups[1]) = {0, 1}

\* C6: remove_oldest on a group of two records dated "01/03/2024" and
\* "15/01/2024" keeps the record dated "15/01/2024" and removes the record
\* dated "01/03/2024".
KeepsFifteenthOfJanuary ==
    (ScenarioD /\ pc = "done") =>
        /\ Len(processedData) = 1
        /\ processedData[1].date = Date2
        /\ Len(actions) = 1
        /\ actions[1].action = "remove"
        /\ actions[1].removedRecord.date = Date1
        /\ actions[1].keptRecord.date = Date2

ScenarioDResolved == ScenarioD /\ pc = "done"

-----------------------------------------------------------------------------
(* merge *)

\* The merged record of the g-th group: mergeDuplicates pushes one action per
\* group, in the order of the groups
MergedRecord(g) == actions[g].mergedRecord

Merged == Resolved /\ strategy = "merge"

FilledOnly == StringFields \ {"commitments", "additional"}

\* The first record after the base, in sorted order, whose field is filled
IsFirstFilled(records, field, k) ==
    /\ IsFilled(records[k].record[field])
    /\ \A h \in 2..(k - 1) : ~IsFilled(records[h].record[field])

FilledFromFirst(records, field, merged) ==
    IF IsFilled(records[1].record[field])
    THEN merged[field] = records[1].record[field]
    ELSE IF \E k \in 2..Len(records) : IsFilled(records[k].record[field])
    THEN \E k \in 2..Len(records) :
             IsFirstFilled(records, field, k) /\ merged[field] = records[k].record[field]
    ELSE merged[field] = records[1].record[field]

\* C7: for a field other than commitments and additional, the merged record
\* holds the base record's value when that value is non-empty, and otherwise
\* the value of the first remaining record, in sorted order, whose value is
\* non-empty; a non-empty value is never replaced by an empty one.  A value
\* is empty when it holds nothing but white space (lines 483-484).
MergeFillsFromFirst ==
    Merged =>
        \A g \in 1..Len(duplicateGroups) : \A field \in FilledOnly :
            FilledFromFirst(duplicateGroups[g].records, field, MergedRecord(g))

\* A base without department merged with two records of different departments
DepartmentFilled ==
    /\ Merged
    /\ Len(duplicateGroups[1].records) = 3
    /\ ~IsFilled(duplicateGroups[1].records[1].record.department)
    /\ IsFilled(duplicateGroups[1].records[2].record.department)
    /\ IsFilled(duplicateGroups[1].records[3].record.department)
    /\ duplicateGroups[1].records[2].record.department
           # duplicateGroups[1].records[3].record.department

FilledCount(record) == Cardinality({field \in StringFields : IsFilled(record[field])})

\* C8: for every group the merged record has at least as many non-empty
\* fields as every record of the group, the base record included.
MergeNeverLosesFields ==
    Merged =>
        \A g \in 1..Len(duplicateGroups) :
            \A k \in 1..Len(duplicateGroups[g].records) :
                FilledCount(MergedRecord(g)) >= FilledCount(duplicateGroups[g].records[k].record)

\* The tokens of a commitments string that are not empty
NonEmptyTokens(s) == SelectSeq(Tokens(s), LAMBDA t : t # <<>>)

TokenSet(s) == Range(NonEmptyTokens(s))

NoRepeats(seq) == \A a, b \in 1..Len(seq) : seq[a] = seq[b] => a = b

\* C9: the token set of the merged record's commitments is the union of the
\* token sets of the group's records, and no token occurs more than once in
\* the merged commitments.
CommitmentsUnited ==
    Merged =>
        \A g \in 1..Len(duplicateGroups) :
            /\ TokenSet(MergedRecord(g).commitments) =
                   UNION {TokenSet(duplicateGroups[g].records[k].record.commitments) :
                              k \in 1..Len(duplicateGroups[g].records)}
            /\ NoRepeats(NonEmptyTokens(MergedRecord(g).commitments))

\* The non-empty additional notes of a group
Notes(group) ==
    {group.records[k].record.additional : k \in 1..Len(group.records)} \ {<<>>}

\* The " | "-separated concatenations holding each note of a set once
Concatenations(notes) ==
    {Join(order, AdditionalSeparator) :
        order \in {o \in [1..Cardinality(notes) -> notes] : NoRepeats(o)}}

\* C10: the merged record's additional field is the " | "-separated
\* concatenation of the group's non-empty additional notes, each distinct
\* note once, for a group of any size.
AdditionalConcatenated ==
    Merged =>
        \A g \in 1..Len(duplicateGroups) :
            MergedRecord(g).additional \in Concatenations(Notes(duplicateGroups[g]))

Score(k) == calculateCompletenessScore(data[k + 1])

\* No member has a higher score than the base, nor the same score and a
\* newer parsed date
BaseIsBest(group, base) ==
    \A m \in Members(group) :
        /\ Score(m) <= Score(base)
        /\ Score(m) = Score(base) => ~Newer(ParsedDate(m), ParsedDate(base))

\* The processed records are in the order of their input indices
InInputOrder ==
    \A k \in 1..(Len(processedData) - 1) :
        processedData[k]._originalIndex < processedData[k + 1]._originalIndex

MergeActionOf(group, a) ==
    /\ a.action = "merge"
    /\ a.groupId = group.groupId
    /\ a.baseIndex \in Members(group)
    /\ BaseIsBest(group, a.baseIndex)
    /\ Len(a.mergedIndices) = Cardinality(Members(group)) - 1
    /\ Range(a.mergedIndices) = Members(group) \ {a.baseIndex}
    /\ \E k \in 1..Len(processedData) :
           /\ processedData[k]._originalIndex = a.baseIndex
           /\ processedData[k] = a.mergedRecord

\* C11: merge emits exactly one 'merge' action per group; its baseIndex is
\* the index of the member with the highest completeness score, ties broken
\* by the newest parsed date; its mergedIndices are the indices of all other
\* members; the merged record is in the output at the base's position.
OneMergeActionPerGroup ==
    Merged =>
        /\ Len(actions) = Len(duplicateGroups)
        /\ InInputOrder
        /\ \A g \in 1..Len(duplicateGroups) : MergeActionOf(duplicateGroups[g], actions[g])

-----------------------------------------------------------------------------
(* review *)

FlagFields == {"duplicate_flag", "duplicate_count", "completeness_score"}

FlaggedFor(group, record) ==
    /\ record.duplicate_flag = [prefix |-> "DUPLICATE_GROUP_", groupId |-> group.groupId]
    /\ record.duplicate_count = Len(group.records)

\* The processed record at index m carries the flags of the group m is in,
\* or none of the flag fields when m is in no group
FlaggedIffMember(m) ==
    IF m \in AllMembers
    THEN /\ DOMAIN processedData[m + 1] = DOMAIN data[m + 1] \cup FlagFields
         /\ \E g \in 1..Len(duplicateGroups) :
                /\ m \in Members(duplicateGroups[g])
                /\ FlaggedFor(duplicateGroups[g], processedData[m + 1])
    ELSE DOMAIN processedData[m + 1] \cap FlagFields = {}

MarksOf(m) == {k \in 1..Len(actions) : actions[k].action = "mark" /\ actions[k].index = m}

\* C12: under review a processed record carries duplicate_flag,
\* duplicate_count and completeness_score if and only if it is a member of a
\* group; the flag names that group's id, duplicate_count is that group's
\* size, and exactly one 'mark' action is emitted per group member.
ReviewFlagsMembers ==
    (Resolved /\ strategy = "review") =>
        /\ Len(processedData) = Len(data)
        /\ \A m \in 0..(Len(data) - 1) : FlaggedIffMember(m)
        /\ Len(actions) = Cardinality(AllMembers)
        /\ \A m \in AllMembers : Cardinality(MarksOf(m)) = 1

\* A review of a group of two records next to a record of no group
GroupOfTwoReviewed ==
    /\ Resolved
    /\ strategy = "review"
    /\ Len(data) = 3
    /\ Len(duplicateGroups) = 1
    /\ Members(duplicateGroups[1]) = {0, 2}

-----------------------------------------------------------------------------
(* areRecordsDuplicate *)

\* areRecordsDuplicate(record1, record2) has returned
Classified == pc = "returned" /\ call.fn = "areRecordsDuplicate"

NameSimilarity(record1, record2) ==
    calculateSimilarity(normalizeCenterName(record1.center),
                        normalizeCenterName(record2.center))

LocationSimilarity(record1, record2) ==
    calculateSimilarity(createLocationKey(record1), createLocationKey(record2))

\* Two records with the same email, which holds more than white space
SameEmail(record1, record2) ==
    /\ record1.email = record2.email
    /\ IsFilled(record1.email)

\* C13: two records that both have the same non-empty email are classified
\* as duplicates whatever their center names, locations and representatives.
\* An email is empty when it holds nothing but white space (line 268).
SameEmailIsDuplicate ==
    (Classified /\ SameEmail(call.args[1], call.args[2])) => returned = <<TRUE>>

\* The same email, and names, locations and representatives that match no rule
SameEmailNothingElse ==
    /\ Classified
    /\ SameEmail(call.args[1], call.args[2])
    /\ ~AtLeast(NameSimilarity(call.args[1], call.args[2]), ModerateCenterName)
    /\ ~AtLeast(LocationSimilarity(call.args[1], call.args[2]), ModerateLocation)
    /\ call.args[1].representative # call.args[2].representative

\* The four rules, each from the two records alone.  A field is non-empty
\* when it holds more than white space.
Rule1(record1, record2) ==
    /\ IsFilled(record1.email) /\ IsFilled(record2.email)
    /\ AtLeast(calculateSimilarity(normalizeEmail(record1.email),
                                   normalizeEmail(record2.email)), ThresholdEmail)

Rule2(record1, record2) ==
    AtLeast(NameSimilarity(record1, record2), ThresholdCenterName)

Rule3(record1, record2) ==
    /\ AtLeast(NameSimilarity(record1, record2), ModerateCenterName)
    /\ AtLeast(LocationSimilarity(record1, record2), ThresholdLocation)

Rule4(record1, record2) ==
    /\ IsFilled(record1.representative) /\ IsFilled(record2.representative)
    /\ AtLeast(calculateSimilarity(record1.representative, record2.representative),
               ThresholdRepresentative)
    /\ AtLeast(LocationSimilarity(record1, record2), ModerateLocation)

AnyRule(record1, record2) ==
    \/ Rule1(record1, record2)
    \/ Rule2(record1, record2)
    \/ Rule3(record1, record2)
    \/ Rule4(record1, record2)

\* C15: areRecordsDuplicate returns true if and only if at least one of the
\* four rules holds: (1) both emails non-empty and email similarity >=
\* thresholds.email; (2) normalized-name similarity >= thresholds.centerName;
\* (3) normalized-name similarity >= 0.70 and location-key similarity >=
\* thresholds.location; (4) both representatives non-empty, representative
\* similarity >= thresholds.representative and location-key similarity >=
\* 0.60.  The similarities are the values calculateSimilarity returns.
DuplicateIffAnyRule ==
    Classified => returned = <<AnyRule(call.args[1], call.args[2])>>

\* A pair that only the representative rule makes duplicates, with a location
\* similarity between 0.60 and thresholds.location
OnlyRepresentativeRule ==
    /\ Classified
    /\ ~Rule1(call.args[1], call.args[2])
    /\ ~Rule2(call.args[1], call.args[2])
    /\ ~Rule3(call.args[1], call.args[2])
    /\ Rule4(call.args[1], call.args[2])
    /\ ~AtLeast(LocationSimilarity(call.args[1], call.args[2]), ThresholdLocation)

\* Scenario A in one collection: "IES Lope de Vega" and "Lope de Vega", both
\* in Madrid, in either order
ScenarioA ==
    /\ call.fn = "main"
    /\ Len(data) = 2
    /\ {data[1].center, data[2].center} = {IESLopeDeVega, LopeDeVega}
    /\ data[1].locality = Madrid
    /\ data[2].locality = Madrid

\* Scenario A across two collections of one record each
ScenarioASpreads ==
    /\ call.fn = "findDuplicates"
    /\ Len(call.args[1]) = 1
    /\ Len(call.args[2]) = 1
    /\ {call.args[1][1].center, call.args[2][1].center} = {IESLopeDeVega, LopeDeVega}
    /\ call.args[1][1].locality = Madrid
    /\ call.args[2][1].locality = Madrid

\* C14: with centerName threshold 0.85, "IES Lope de Vega" and "Lope de
\* Vega", both with locality "Madrid", are duplicates by the name rule: the
\* clustering pass puts them in one group, and findDuplicates pairs them with
\* match reason name_match.
ScenarioAIsNameMatch ==
    /\ (ScenarioA /\ pc # "find") =>
           /\ AtLeast(NameSimilarity(data[1], data[2]), ThresholdCenterName)
           /\ Len(duplicateGroups) = 1
           /\ Members(duplicateGroups[1]) = {0, 1}
    /\ (ScenarioASpreads /\ pc = "returned") =>
           /\ Len(returned[1]) = 1
           /\ returned[1][1].match_reason = "name_match"
           /\ returned[1][1].spread1_index = 0
           /\ returned[1][1].spread2_index = 0

\* Scenario A clustered
ScenarioAClustered == ScenarioA /\ pc = "done"

------------------------------------------------------------------------------
(* The similarity score *)

\* calculateSimilarity has returned
SimilarityReturned == call.fn = "calculateSimilarity" /\ pc = "returned"

\* The lower-cased, trimmed input
Folded(str) == Trim(ToLowerCase(str))

\* Two fractions of the same value
SameValue(x, y) == x.num * y.den = y.num * x.den

\* C16: calculateSimilarity returns 1 when both inputs are empty strings, and
\* when both are empty after trimming.
BothEmptyIsOne ==
    (/\ SimilarityReturned
     /\ Folded(call.args[1]) = <<>>
     /\ Folded(call.args[2]) = <<>>) => SameValue(returned[1], Frac(1, 1))

\* C17: calculateSimilarity(a, b) equals calculateSimilarity(b, a) for all
\* strings a and b, empty, blank and differently cased ones included.
SimilarityIsSymmetric ==
    SimilarityReturned =>
        SameValue(returned[1], calculateSimilarity(call.args[2], call.args[1]))

\* A cased, padded string compared with a shorter one
CasedAgainstShorter ==
    /\ SimilarityReturned
    /\ call.args[1] = <<"A", "b", " ">>
    /\ call.args[2] = <<" ", "a">>
    /\ returned[1] = Frac(1, 2)

\* The Levenshtein distance with unit costs, by its recurrence
RECURSIVE Levenshtein(_, _)
Levenshtein(a, b) ==
    IF a = <<>> THEN Len(b)
    ELSE IF b = <<>> THEN Len(a)
    ELSE Min2(Min2(Levenshtein(Tail(a), b) + 1, Levenshtein(a, Tail(b)) + 1),
              Levenshtein(Tail(a), Tail(b)) + (IF Head(a) = Head(b) THEN 0 ELSE 1))

\* value is (maxLen - editDistance(a, b)) / maxLen, in [0,1], and 1 exactly
\* when a = b
NormalisedLevenshtein(a, b, maxLen, value) ==
    /\ maxLen > 0 =>
           value.num * maxLen = (maxLen - Levenshtein(a, b)) * value.den
    /\ value.den > 0
    /\ 0 <= value.num
    /\ value.num <= value.den
    /\ (value.num = value.den) <=> (a = b)

\* C18: for non-empty inputs calculateSimilarity(a, b) is
\* (maxLen - editDistance(a', b')) / maxLen, a' and b' the lower-cased,
\* trimmed inputs and editDistance the unit-cost Levenshtein distance; it is
\* in [0,1] and 1 exactly when a' = b'; it is 0 when exactly one input is empty.
SimilarityIsNormalisedLevenshtein ==
    SimilarityReturned =>
        /\ (call.args[1] # <<>> /\ call.args[2] # <<>>) =>
               NormalisedLevenshtein(
                   Folded(call.args[1]), Folded(call.args[2]),
                   Max2(Len(Folded(call.args[1])), Len(Folded(call.args[2]))),
                   returned[1])
        /\ ((call.args[1] = <<>>) # (call.args[2] = <<>>)) =>
               returned[1].num = 0

\* Two strings at distance 2 of each other, the longer of length 4
HalfSimilar ==
    /\ SimilarityReturned
    /\ call.args[1] = <<"a", "c", "b", "d">>
    /\ call.args[2] = <<"a", "b", "c">>
    /\ returned[1] = Frac(2, 4)

------------------------------------------------------------------------------
(* Text cleaning *)

\* C19: cleanText(cleanText(x)) equals cleanText(x) for every text x, also
\* when a zero-width or word-joiner character sits next to spaces or at the
\* start or end of the text.
CleanTextIsIdempotent ==
    (call.fn = "cleanText" /\ pc = "returned") =>
        cleanText(returned[1]) = returned[1]

------------------------------------------------------------------------------
(* The strategy switch *)

\* C20: processDuplicates with a strategy name other than review,
\* remove_oldest, remove_newest and merge applies no policy: once it has been
\* called (main() calls it when there are duplicate groups), no record is
\* flagged or removed and no action is emitted.
UnknownStrategyAppliesNothing ==
    (strategy \notin Strategies /\ pc = "done" /\ duplicateGroups # <<>>) =>
        /\ processedData = data
        /\ actions = <<>>

------------------------------------------------------------------------------
(* Dates *)

\* The record's date is absent or does not parse
Undated(record) == record.date = <<>> \/ ~parseDate(record.date).valid

\* After the sort of the strategy, the member at position p of the group
\* ranks as newer than the member at position q
RanksNewer(group, p, q) ==
    CASE strategy = "remove_oldest" -> p < q
      [] strategy = "remove_newest" -> q < p
      [] strategy = "merge" ->
             /\ p < q
             /\ calculateCompletenessScore(group.records[p].record)
                    = calculateCompletenessScore(group.records[q].record)
      [] OTHER -> FALSE

\* C21: an absent or unparseable date is ordered as the oldest: in the sort
\* of remove_oldest, remove_newest and merge, a record with an absent or
\* unparseable date never ranks as newer than a member of its group whose
\* date parses.
UndatedRanksOldest ==
    Resolved =>
        \A g \in 1..Len(duplicateGroups) :
            \A p, q \in 1..Len(duplicateGroups[g].records) :
                (/\ RanksNewer(duplicateGroups[g], p, q)
                 /\ Undated(duplicateGroups[g].records[p].record))
                    => Undated(duplicateGroups[g].records[q].record)

------------------------------------------------------------------------------
(* Matching across two collections *)

\* findDuplicates has returned
Matched == call.fn = "findDuplicates" /\ pc \in {"returned", "merged"}

\* The indices of the records of B that classify as duplicates of record1
MatchesOf(record1, B) ==
    {j \in 0..(Len(B) - 1) :
        IsDuplicate(crossNameSimilarity(record1, B[j + 1]),
                    crossLocationSimilarity(record1, B[j + 1]))}

\* The positions, in the pairs returned, of those recorded for index i of A
PairsOf(i1) == {k \in 1..Len(returned[1]) : returned[1][k].spread1_index = i1}

Lowest(indices) == CHOOSE j \in indices : \A other \in indices : j <= other

\* pair is record1, at index i1 of A, with the record at index j2 of B
Pairs(pair, record1, i1, B, j2) ==
    /\ pair.spread1_index = i1
    /\ pair.spread2_index = j2
    /\ pair.spread1_record = record1
    /\ pair.spread2_record = B[j2 + 1]

\* matches are the indices of the records of B that match A[i1]
FirstMatchOnly(A, B, i1, matches) ==
    IF matches = {}
    THEN PairsOf(i1) = {}
    ELSE /\ Cardinality(PairsOf(i1)) = 1
         /\ \A k \in PairsOf(i1) :
                Pairs(returned[1][k], A[i1 + 1], i1, B, Lowest(matches))

\* C22: for each record A[i], if at least one record of B classifies as its
\* duplicate, exactly one pair is recorded for i, with the matching B[j] of
\* lowest index, even when a later record of B is more similar; if no record
\* of B matches, no pair is recorded for i.
FirstMatchIsPaired ==
    (call.fn = "findDuplicates" /\ pc = "returned") =>
        \A i1 \in 0..(Len(call.args[1]) - 1) :
            \A matches \in {MatchesOf(call.args[1][i1 + 1], call.args[2])} :
                FirstMatchOnly(call.args[1], call.args[2], i1, matches)

\* x < y, of two fractions
Less(x, y) == x.num * y.den < y.num * x.den

\* A record of A paired with a record of B while a later record of B is more
\* similar to it
LaterMatchMoreSimilar ==
    /\ Matched
    /\ \E k \in 1..Len(returned[1]) :
           \E j \in (returned[1][k].spread2_index + 1)..(Len(call.args[2]) - 1) :
               Less(returned[1][k].name_similarity,
                    crossNameSimilarity(returned[1][k].spread1_record,
                                        call.args[2][j + 1]))

\* The records of A that no record of B classifies as a duplicate of
Unmatched(A, B) == SelectSeq(A, LAMBDA record1 : MatchesOf(record1, B) = {})

\* C23: the merged collection is every record of B in B's order, followed by
\* exactly the records of A that were not matched, in A's order and
\* unmodified; its length is |B| + |A| - (number of duplicate pairs).
MergedIsSpread2ThenUnmatched ==
    (call.fn = "findDuplicates" /\ pc = "merged") =>
        /\ returned[2] = call.args[2] \o Unmatched(call.args[1], call.args[2])
        /\ Len(returned[2])
               = Len(call.args[2]) + Len(call.args[1]) - Len(returned[1])

\* A merge that drops a matched record of A and keeps an unmatched one
OneDroppedOneKept ==
    /\ call.fn = "findDuplicates"
    /\ pc = "merged"
    /\ Len(call.args[1]) = 2
    /\ Len(returned[1]) = 1
    /\ Len(returned[2]) = Len(call.args[2]) + 1

\* C26: no record of either collection is in more than one duplicate pair:
\* each index of A occurs in at most one pair returned by findDuplicates, and
\* each index of B occurs in at most one pair.
NoRecordInTwoPairs ==
    Matched =>
        \A k1, k2 \in 1..Len(returned[1]) :
            k1 # k2 =>
                /\ returned[1][k1].spread1_index # returned[1][k2].spread1_index
                /\ returned[1][k1].spread2_index # returned[1][k2].spread2_index

------------------------------------------------------------------------------
(* Records without a location *)

\* Neither record has a populated locality, province or region
BothWithoutLocation(record1, record2) ==
    /\ createLocationKey(record1) = <<>>
    /\ createLocationKey(record2) = <<>>

\* C24: for two records that both have no populated locality, province or
\* region, areRecordsDuplicate returns true only through the email rule or
\* through a name similarity >= thresholds.centerName, never through the
\* name+location or the representative+location rule.
EmptyLocationsAreNoSignal ==
    (/\ Classified
     /\ BothWithoutLocation(call.args[1], call.args[2])
     /\ returned = <<TRUE>>)
        => (Rule1(call.args[1], call.args[2]) \/ Rule2(call.args[1], call.args[2]))

\* Two records without a location, with the same representative and a
\* moderate name similarity, that are not duplicates
NoLocationNoMatch ==
    /\ Classified
    /\ BothWithoutLocation(call.args[1], call.args[2])
    /\ AtLeast(NameSimilarity(call.args[1], call.args[2]), ModerateCenterName)
    /\ IsFilled(call.args[1].representative)
    /\ call.args[1].representative = call.args[2].representative
    /\ returned = <<FALSE>>

------------------------------------------------------------------------------
(* The order of parsed dates *)

\* The calendar date date1 is earlier than date2
Earlier(date1, date2) ==
    \/ date1[3] < date2[3]
    \/ date1[3] = date2[3] /\ date1[2] < date2[2]
    \/ date1[3] = date2[3] /\ date1[2] = date2[2] /\ date1[1] < date2[1]

\* C25: for two strings of the same format (D/M/Y read as day/month/year,
\* Y-M-D as year-month-day, D-M-Y as day-month-year) that denote valid
\* calendar dates d1 earlier than d2, parseDate of the first is strictly less
\* than parseDate of the second.
ParseDatePreservesOrder ==
    (call.fn = "parseDate" /\ pc = "returned") =>
        \A style \in DateStyles : \A date1, date2 \in CalendarDates :
            (/\ call.args = <<Written(style, date1), Written(style, date2)>>
             /\ Earlier(date1, date2))
                => Newer(returned[2], returned[1])

------------------------------------------------------------------------------
(* The inputs of the resolution *)

\* C27: processDuplicates, under any strategy, leaves the input collection
\* with the same length, order and field values, and leaves each duplicate
\* group with the same members in the same order as clustering produced.
ResolutionKeepsInputs ==
    [][pc = "process" => (data' = data /\ duplicateGroups' = duplicateGroups)]_vars

------------------------------------------------------------------------------
(* The shape of a group *)

\* The group as findDuplicatesInDataset builds it: two members or more, in
\* increasing index order, each the record of the input at its index, and
\* each but the first a duplicate of the first by areRecordsDuplicate
WellShaped(records) ==
    /\ Len(records) >= 2
    /\ \A k \in 1..Len(records) : records[k].record = data[records[k].index + 1]
    /\ \A k \in 1..(Len(records) - 1) : records[k].index < records[k + 1].index
    /\ \A k \in 2..Len(records) :
           areRecordsDuplicate(records[1].record, records[k].record)

\* C28: every group of findDuplicatesInDataset has at least two members, its
\* first member has the smallest index of the group, the remaining members
\* are in increasing index order, every remaining member classifies directly
\* as a duplicate of the first member, and the group ids are 1..k in order of
\* discovery.
GroupsAreWellShaped ==
    pc \in {"find", "process"} =>
        /\ \A g \in 1..Len(duplicateGroups) :
               /\ duplicateGroups[g].groupId = g
               /\ WellShaped(duplicateGroups[g].records)
        /\ \A g \in 1..(Len(duplicateGroups) - 1) :
               duplicateGroups[g].records[1].index
                   < duplicateGroups[g + 1].records[1].index

\* Two groups whose members alternate in the input
InterleavedGroups ==
    /\ pc = "process"
    /\ Len(duplicateGroups) = 2
    /\ Members(duplicateGroups[1]) = {0, 2}
    /\ Members(duplicateGroups[2]) = {1, 3}

------------------------------------------------------------------------------
(* The two pair decisions *)

\* findDuplicates pairs the two records, each alone in its collection
PairedAcross(record1, record2) ==
    findDuplicates(LoadedSpread(<<record1>>, "spread1"),
                   LoadedSpread(<<record2>>, "spread2")) # <<>>

\* C29: for every pair of records and the default thresholds, findDuplicates
\* declares the pair a duplicate exactly when areRecordsDuplicate does, also
\* for pairs that agree only on email or only on representative plus
\* location.
SamePairDecision ==
    Classified => (returned[1] <=> PairedAcross(call.args[1], call.args[2]))

------------------------------------------------------------------------------
(* The get-signatures handler *)

\* The status the handler is to respond with
RightStatus(event, accessToken, statusCode) ==
    IF event.httpMethod = "OPTIONS" THEN statusCode = 200
    ELSE IF event.httpMethod # "GET" THEN statusCode = 405
    ELSE IF accessToken = <<>> THEN statusCode = 500
    ELSE statusCode \in {200, 500}

\* C30: the handler always completes with a response: OPTIONS yields 200, any
\* other method but GET yields 405, a GET without access token yields 500
\* without contacting the API, and a GET whose request finishes in any way (a
\* 200 with a valid body, a 200 with a body that is not valid JSON, another
\* status, a network error) eventually yields 200 or 500; the handler is
\* never left pending and never fails with an uncaught exception.
HandlerAlwaysResponds ==
    /\ [](pc = "returned" =>
             RightStatus(call.args[1], call.env.NETLIFY_ACCESS_TOKEN,
                         returned[1].statusCode))
    /\ [](pc = "awaiting" => call.env.NETLIFY_ACCESS_TOKEN # <<>>)
    /\ [](pc # "uncaught")
    /\ <>(pc = "returned")

=============================================================================
